---- MODULE Spec2Model ----
(***************************************************************************)
(* Top-down cumulative trapezoidal integration, integrate_from_top of      *)
(* IMPACT_MATLAB/test_numerical_methods.py, as a state machine: one        *)
(* invocation of the function, stepped one loop iteration at a time.       *)
(*                                                                         *)
(* Arrays keep the source's 0-based indices: an array of length n is a     *)
(* function with domain 0..n-1.                                            *)
(*                                                                         *)
(* Floating point values are records: Fin(v) is the finite value v, NaN is *)
(* not-a-number.  Arithmetic on them is exact on finite values and yields  *)
(* NaN as soon as an operand is NaN (IEEE 754).  Rounding is not modelled. *)
(* The value of q_cum is held DOUBLED: the source's                        *)
(*     area = 0.5 * (q_tot[i-1] + q_tot[i]) * dz_local                     *)
(* is held as (q_tot[i-1] + q_tot[i]) * dz_local, which keeps the factor   *)
(* 0.5 exact over the integers.  Fin(2*x) in q_cum stands for x.           *)
(***************************************************************************)
EXTENDS Integers, Sequences, FiniteSets, TLC

VARIABLES z, q_tot, n, q_cum, i, pc, raised, log, other, ion, dir, loss,
          dbg, summary, validator

vars == <<z, q_tot, n, q_cum, i, pc, raised, log, other, ion, dir, loss,
          dbg, summary, validator>>

(* The routines of the other scripts, each held as a record of its arguments
   and locals: calc_ionization, test_integration_direction and the
   precipitation loss loops.  A routine that is not running is Idle. *)
scripts == <<ion, dir, loss, dbg, summary, validator>>

Idle == [pc |-> "idle"]

(* The debugging scripts (dbg), the summary file with its two writers
   (summary) and the validators' run_test bookkeeping (validator) *)
harness == <<dbg, summary, validator>>

----------------------------------------------------------------------------
(* Bounds of the explored inputs *)

MaxLen == 3

Altitudes == {0, 1, 3, 4}

----------------------------------------------------------------------------
(* Floating point values *)

NaN == [nan |-> TRUE, v |-> 0]

Fin(x) == [nan |-> FALSE, v |-> x]

isnan(a) == a.nan

(* A sum that takes NaN for 0 *)
Add_IgnoreNaN(a, b) == Fin((IF a.nan THEN 0 ELSE a.v) + (IF b.nan THEN 0 ELSE b.v))

Add(a, b) == IF a.nan \/ b.nan THEN NaN ELSE Fin(a.v + b.v)

Mul(a, b) == IF a.nan \/ b.nan THEN NaN ELSE Fin(a.v * b.v)

----------------------------------------------------------------------------
(* Arrays, 0-based *)

len(a) == Cardinality(DOMAIN a)

Arr(s) == [k \in 0..(Len(s) - 1) |-> s[k + 1]]

FinArr(s) == [k \in 0..(Len(s) - 1) |-> Fin(s[k + 1])]

(* np.ones in the place of np.zeros *)
zeros_Ones(m) == [k \in 0..(m - 1) |-> Fin(1)]

zeros(m) == [k \in 0..(m - 1) |-> Fin(0)]

flip(a) == [k \in 0..(len(a) - 1) |-> a[len(a) - 1 - k]]

----------------------------------------------------------------------------
(* The loop body of integrate_from_top *)

(* The step taken the other way round, zz[k-1] - zz[k] *)
dz_local_Swapped(zz, k) == zz[k - 1] - zz[k]

dz_local(zz, k) == zz[k] - zz[k - 1]

(* The rectangle rule on the upper sample, qq[k] alone *)
area_Rectangle(qq, zz, k) == Mul(Add(qq[k], qq[k]), Fin(dz_local(zz, k)))

area(qq, zz, k) == Mul(Add(qq[k - 1], qq[k]), Fin(dz_local(zz, k)))

IndexError(qq, k) == (k - 1) \notin DOMAIN qq \/ k \notin DOMAIN qq

(* The area stored without the running total cum[k] *)
Accumulate_NoCarry(cum, qq, zz, k) == [cum EXCEPT ![k - 1] = area(qq, zz, k)]

Accumulate(cum, qq, zz, k) == [cum EXCEPT ![k - 1] = Add(cum[k], area(qq, zz, k))]

(* One pass of "for i in range(n-1, 0, -1)": the array after the pass, or the
   exception the subscripts q_tot[i-1], q_tot[i] raise.  A segment of zero
   width is skipped, and then q_tot is not read. *)
body(cum, qq, zz, k) ==
    IF dz_local(zz, k) # 0
    THEN IF IndexError(qq, k)
         THEN [raised |-> "IndexError", cum |-> cum]
         ELSE [raised |-> "none", cum |-> Accumulate(cum, qq, zz, k)]
    ELSE [raised |-> "none", cum |-> cum]

(* The whole loop, from index k down to 1 *)
RECURSIVE loop(_, _, _, _)
loop(cum, qq, zz, k) ==
    IF k < 1
    THEN [raised |-> "none", value |-> cum]
    ELSE LET r == body(cum, qq, zz, k)
         IN  IF r.raised # "none"
             THEN [raised |-> r.raised, value |-> << >>]
             ELSE loop(r.cum, qq, zz, k - 1)

(* The whole call: what integrate_from_top(zz, qq) returns or raises *)
integrate_from_top(zz, qq) == loop(zeros(len(zz)), qq, zz, len(zz) - 1)

----------------------------------------------------------------------------
(* Inputs *)

RateValues == {Fin(-1), Fin(0), Fin(1), NaN}

Slopes == {-1, 2}

Intercepts == {-1, 0, 3}

Increasing(g) == \A k \in DOMAIN g : k >= 1 => g[k - 1] < g[k]

Decreasing(g) == \A k \in DOMAIN g : k >= 1 => g[k - 1] > g[k]

NonDecreasing(g) == \A k \in DOMAIN g : k >= 1 => g[k - 1] <= g[k]

NonIncreasing(g) == \A k \in DOMAIN g : k >= 1 => g[k - 1] >= g[k]

(* Altitude grids: monotonic, in either storage order, of any spacing;
   repeated altitudes occur (the loop guards them with dz_local != 0) *)
Grids(m) == {g \in [0..(m - 1) -> Altitudes] : NonDecreasing(g) \/ NonIncreasing(g)}

(* Rate profiles of length m: any values, NaN and negative included *)
Profiles(m) == [0..(m - 1) -> RateValues]

(* rate[k] = slope * altitude[k] + intercept *)
LinearProfile(g, slope, intercept) == [k \in DOMAIN g |-> Fin(slope * g[k] + intercept)]

(* The profile without its last element, and with one element more *)
Shorter(p) == [k \in 0..(len(p) - 2) |-> p[k]]

Longer(p) == [k \in 0..len(p) |-> IF k < len(p) THEN p[k] ELSE Fin(0)]

GenericInputs ==
    UNION {Grids(m) \X Profiles(m) : m \in 0..MaxLen}

LinearInputs ==
    {<<g, LinearProfile(g, s, b)>> :
        g \in UNION {Grids(m) : m \in 0..MaxLen}, s \in Slopes, b \in Intercepts}

MismatchedInputs ==
    {<<x[1], Shorter(x[2])>> : x \in {y \in GenericInputs : len(y[1]) >= 1}}
        \cup {<<x[1], Longer(x[2])>> : x \in GenericInputs}

(* The grids and profiles of the concrete scenarios; the rates of Scenario2
   are in units of 0.1 *)
Scenario1 == <<Arr(<<0, 10, 20, 30>>), FinArr(<<1, 1, 1, 1>>)>>

Scenario3 == <<Arr(<<0, 1, 2, 5, 10>>), FinArr(<<10, 10, 10, 10, 10>>)>>

Scenario2 == <<Arr(<<300, 250, 200, 150, 100>>), FinArr(<<1, 5, 15, 30, 50>>)>>

Inputs ==
    GenericInputs \cup LinearInputs \cup MismatchedInputs
        \cup {Scenario1, Scenario2, Scenario3}

----------------------------------------------------------------------------
(* The invocation.  log is the caller's record of the calls that have ended,
   other is a second invocation running on arrays of its own; a single call
   has neither. *)

NoOther == [pc |-> "idle"]

Init ==
    /\ \E x \in Inputs : z = x[1] /\ q_tot = x[2]
    /\ n = 0
    /\ q_cum = << >>
    /\ i = 0
    /\ pc = "call"
    /\ raised = "none"
    /\ log = << >>
    /\ other = NoOther
    /\ ion = Idle /\ dir = Idle /\ loss = Idle
    /\ dbg = Idle /\ summary = Idle /\ validator = Idle

(* n = len(z); q_cum = np.zeros(n); the loop starts at i = n-1 *)
Enter ==
    /\ pc = "call"
    /\ n' = len(z)
    /\ q_cum' = zeros(len(z))
    /\ i' = len(z) - 1
    /\ pc' = "loop"
    /\ UNCHANGED <<z, q_tot, raised, log, other>>
    /\ UNCHANGED scripts

(* One iteration that stores the running total into the rate array as well,
   q_tot[i-1] = q_cum[i-1] = q_cum[i] + area *)
Iterate_InPlace ==
    /\ pc = "loop"
    /\ i >= 1
    /\ LET r == body(q_cum, q_tot, z, i)
       IN  IF r.raised # "none"
           THEN /\ pc' = "raise"
                /\ raised' = r.raised
                /\ UNCHANGED <<q_cum, i, q_tot>>
           ELSE /\ q_cum' = r.cum
                /\ q_tot' = [q_tot EXCEPT ![i - 1] = r.cum[i - 1]]
                /\ i' = i - 1
                /\ UNCHANGED <<pc, raised>>
    /\ UNCHANGED <<z, n, log, other>>
    /\ UNCHANGED scripts

(* One iteration of the loop *)
Iterate ==
    /\ pc = "loop"
    /\ i >= 1
    /\ LET r == body(q_cum, q_tot, z, i)
       IN  IF r.raised # "none"
           THEN /\ pc' = "raise"
                /\ raised' = r.raised
                /\ UNCHANGED <<q_cum, i>>
           ELSE /\ q_cum' = r.cum
                /\ i' = i - 1
                /\ UNCHANGED <<pc, raised>>
    /\ UNCHANGED <<z, q_tot, n, log, other>>
    /\ UNCHANGED scripts

(* return q_cum *)
Return ==
    /\ pc = "loop"
    /\ i < 1
    /\ pc' = "return"
    /\ UNCHANGED <<z, q_tot, n, q_cum, i, raised, log, other>>
    /\ UNCHANGED scripts

Next == Enter \/ Iterate \/ Return

Spec == Init /\ [][Next]_vars

----------------------------------------------------------------------------
(* Vocabulary of the properties *)

Returned == pc = "return"

SameLength == len(z) = len(q_tot)

StrictlyMonotonic(g) == Increasing(g) \/ Decreasing(g)

(* The index of the largest altitude, found by comparing the two endpoints *)
top_index(g) == IF g[0] > g[len(g) - 1] THEN 0 ELSE len(g) - 1

Abs(x) == IF x < 0 THEN -x ELSE x

AllFinite(a) == \A k \in DOMAIN a : ~isnan(a[k])

(* Twice the sum over k = j..m-2 of 0.5 * (qq[k] + qq[k+1]) * (zz[k+1] - zz[k]) *)
RECURSIVE TrapezoidSum(_, _, _)
TrapezoidSum(zz, qq, j) ==
    IF j >= len(zz) - 1
    THEN Fin(0)
    ELSE Add(Mul(Add(qq[j], qq[j + 1]), Fin(zz[j + 1] - zz[j])),
             TrapezoidSum(zz, qq, j + 1))

----------------------------------------------------------------------------
(* C1: for a strictly monotonic grid of length >= 1, in either storage order,
   and a rate profile of the same length, the returned array is exactly 0 at
   top_index, the index of the largest altitude. *)
C1_ZeroAtTop ==
    (Returned /\ SameLength /\ len(z) >= 1 /\ StrictlyMonotonic(z))
        => q_cum[top_index(z)] = Fin(0)

(* C2: on a strictly increasing grid, for any rate values, the call raises
   nothing and returns at every index j the unclamped signed trapezoid sum
   from the top, sum over k = j..n-2 of
   0.5 * (rate[k] + rate[k+1]) * (altitude[k+1] - altitude[k]). *)
C2_SignedTrapezoidSum ==
    (SameLength /\ Increasing(z))
        => /\ pc # "raise"
           /\ Returned => \A j \in DOMAIN z : q_cum[j] = TrapezoidSum(z, q_tot, j)

C2_Witness ==
    /\ Returned /\ SameLength /\ Increasing(z) /\ len(z) >= 3
    /\ z[2] - z[1] # z[1] - z[0]
    /\ q_tot[1] = Fin(-1) /\ q_tot[0] = Fin(1)
    /\ ~isnan(q_cum[0]) /\ q_cum[0].v < 0

(* C3: storing the same profile in the other order gives the same values:
   integrate_from_top(reverse(altitude), reverse(rate)) equals
   reverse(integrate_from_top(altitude, rate)). *)
C3_StorageOrderIndependence ==
    (Returned /\ SameLength /\ StrictlyMonotonic(z))
        => integrate_from_top(flip(z), flip(q_tot))
               = [raised |-> "none", value |-> flip(q_cum)]

(* C4: when the two arrays differ in length, rate shorter or longer, the call
   fails with ShapeMismatch and returns nothing. *)
C4_ShapeMismatch ==
    ~SameLength
        => /\ ~Returned
           /\ pc = "raise" => raised = "ShapeMismatch"

(* C5: with a single NaN in rate, at an index k that is not the top index, the
   returned array is NaN at k and at every index farther from the top than k,
   and finite at every index nearer to the top, the top included. *)
C5_NaNPropagation ==
    (Returned /\ SameLength /\ StrictlyMonotonic(z))
        => \A k \in DOMAIN q_tot :
              (/\ k # top_index(z)
               /\ \A m \in DOMAIN q_tot : isnan(q_tot[m]) <=> m = k)
                  => \A j \in DOMAIN q_cum :
                        isnan(q_cum[j])
                            <=> Abs(j - top_index(z)) >= Abs(k - top_index(z))

(* C6: for a strictly monotonic grid in either storage order and rates that
   are all >= 0, the magnitude of the returned values does not decrease from
   one index to the next one farther from the top. *)
C6_MagnitudeGrowsAwayFromTop ==
    (/\ Returned /\ SameLength /\ StrictlyMonotonic(z)
     /\ \A k \in DOMAIN q_tot : ~isnan(q_tot[k]) /\ q_tot[k].v >= 0)
        => \A j, m \in DOMAIN q_cum :
              Abs(m - top_index(z)) = Abs(j - top_index(z)) + 1
                  => Abs(q_cum[m].v) >= Abs(q_cum[j].v)

(* C7: for a constant profile rate[k] = C on a strictly monotonic grid, of any
   spacing and in either storage order, the returned value at every index j is
   C * |altitude[top_index] - altitude[j]|. *)
C7_ConstantProfileExact ==
    (Returned /\ SameLength /\ len(z) >= 1 /\ StrictlyMonotonic(z) /\ AllFinite(q_tot))
        => ((\A k \in DOMAIN q_tot : q_tot[k] = q_tot[0])
               => \A j \in DOMAIN q_cum :
                     q_cum[j] = Fin(2 * q_tot[0].v * Abs(z[top_index(z)] - z[j])))

(* C8: for a linear profile rate[k] = m * altitude[k] + b on a strictly
   increasing grid of any spacing, the returned value at every index j is the
   analytic one, (0.5*m*z_top^2 + b*z_top) - (0.5*m*z[j]^2 + b*z[j]) with
   z_top = altitude[n-1]. *)
C8_LinearProfileExact ==
    (Returned /\ Increasing(z) /\ len(z) >= 1)
        => \A m \in Slopes, b \in Intercepts :
              q_tot = LinearProfile(z, m, b)
                  => \A j \in DOMAIN q_cum :
                        q_cum[j] =
                            LET z_top == z[len(z) - 1]
                            IN  Fin((m * z_top * z_top + 2 * b * z_top)
                                      - (m * z[j] * z[j] + 2 * b * z[j]))

C8_Witness ==
    /\ Returned /\ Increasing(z) /\ len(z) >= 3
    /\ z[2] - z[1] # z[1] - z[0]
    /\ q_tot = LinearProfile(z, 2, 3)
    /\ q_cum[0].v > q_cum[1].v /\ q_cum[1].v > 0

(* C9: altitude [0,10,20,30] with rate [1,1,1,1] returns [30,20,10,0], and
   altitude [0,1,2,5,10] with rate [10,10,10,10,10] returns [100,90,80,50,0]. *)
C9_IncreasingScenarios ==
    Returned
        => /\ <<z, q_tot>> = Scenario1
               => q_cum = FinArr(<<2 * 30, 2 * 20, 2 * 10, 2 * 0>>)
           /\ <<z, q_tot>> = Scenario3
               => q_cum = FinArr(<<2 * 100, 2 * 90, 2 * 80, 2 * 50, 2 * 0>>)

C9_Witness ==
    /\ Returned
    /\ <<z, q_tot>> = Scenario3
    /\ q_cum[3] = Fin(2 * 50)

(* C10: altitude [300,250,200,150,100] with rate [0.1,0.5,1.5,3.0,5.0] (index 0
   is the top) returns 0 at index 0 and, at index 4, the full trapezoidal sum
   of the four segments; rates in units of 0.1. *)
C10_DecreasingScenario ==
    (Returned /\ <<z, q_tot>> = Scenario2)
        => /\ q_cum[0] = Fin(0)
           /\ q_cum[4] = Fin((1 + 5) * 50 + (5 + 15) * 50 + (15 + 30) * 50 + (30 + 50) * 50)

(* C11: for n = 1 the call returns the one-element array [0] whatever the
   single rate value is, for n = 0 it returns the empty array, and in neither
   case is an exception raised. *)
C11_DegenerateLengths ==
    len(z) <= 1
        => /\ pc # "raise"
           /\ Returned => /\ len(q_cum) = len(z)
                          /\ \A k \in DOMAIN q_cum : q_cum[k] = Fin(0)

C11_Witness ==
    /\ Returned
    /\ len(z) = 1
    /\ SameLength
    /\ isnan(q_tot[0])
    /\ q_cum = FinArr(<<0>>)

----------------------------------------------------------------------------
(* A caller making one call after the other, as main() of
   test_numerical_methods.py does through its test functions *)

MaxCalls == 3

(* Single point, empty arrays, and the profile with a NaN (rates in units of
   1e7) of the edge-case and NaN tests; a profile shorter than its grid *)
SinglePoint == <<Arr(<<100>>), FinArr(<<1>>)>>

EmptyArrays == <<Arr(<< >>), Arr(<< >>)>>

NaNProfile ==
    <<Arr(<<100, 200, 300, 400, 500>>),
      [k \in 0..4 |-> IF k = 2 THEN NaN ELSE Fin(<<1000, 100, 0, 10, 1>>[k + 1])]>>

ShortProfile == <<Arr(<<0, 10, 20, 30>>), FinArr(<<1, 1>>)>>

SessionInputs ==
    {Scenario1, Scenario2, Scenario3, SinglePoint, EmptyArrays, NaNProfile, ShortProfile}

(* What the call that has ended gave its caller *)
outcome ==
    IF pc = "raise"
    THEN [raised |-> raised, value |-> << >>]
    ELSE [raised |-> "none", value |-> q_cum]

InitSession ==
    /\ \E x \in SessionInputs : z = x[1] /\ q_tot = x[2]
    /\ n = 0
    /\ q_cum = << >>
    /\ i = 0
    /\ pc = "call"
    /\ raised = "none"
    /\ log = << >>
    /\ other = NoOther
    /\ ion = Idle /\ dir = Idle /\ loss = Idle
    /\ dbg = Idle /\ summary = Idle /\ validator = Idle

(* The caller notes the arrays and the outcome of the call that ended and
   calls again.  The function's locals are not touched here: a new call has to
   set them itself. *)
CallAgain ==
    /\ pc \in {"return", "raise"}
    /\ Len(log) < MaxCalls
    /\ log' = Append(log, [z |-> z, q_tot |-> q_tot, result |-> outcome])
    /\ \E x \in SessionInputs : z' = x[1] /\ q_tot' = x[2]
    /\ pc' = "call"
    /\ raised' = "none"
    /\ UNCHANGED <<n, q_cum, i, other>>
    /\ UNCHANGED scripts

NextSession == Enter \/ Iterate \/ Return \/ CallAgain

SpecSession == InitSession /\ [][NextSession]_vars

(* A step of a call leaves the two arrays it was given as they are *)
ArgumentsKept == pc \in {"call", "loop"} => (z' = z /\ q_tot' = q_tot)

(* C12: a call leaves both of its input arrays as they were, and keeps no
   state between calls: whatever calls came before, two calls with the same
   inputs give the same output. *)
C12_Purity ==
    /\ [][ArgumentsKept]_vars
    /\ [](\A a, b \in 1..Len(log) :
             (log[a].z = log[b].z /\ log[a].q_tot = log[b].q_tot)
                 => log[a].result = log[b].result)
    /\ [](pc \in {"return", "raise"}
             => \A a \in 1..Len(log) :
                   (log[a].z = z /\ log[a].q_tot = q_tot) => log[a].result = outcome)

C12_Witness ==
    /\ Returned
    /\ Len(log) = 2
    /\ <<log[1].z, log[1].q_tot>> = NaNProfile
    /\ <<log[2].z, log[2].q_tot>> = Scenario2
    /\ <<z, q_tot>> = NaNProfile
    /\ isnan(q_cum[0]) /\ q_cum[3] = Fin(1100)

----------------------------------------------------------------------------
(* Two invocations at once, each on arrays of its own, their loop iterations
   interleaved in any order.  The first runs on the variables above, the
   second on the record other, which holds its arguments and its locals. *)

InitTwo ==
    /\ \E x \in SessionInputs : z = x[1] /\ q_tot = x[2]
    /\ n = 0
    /\ q_cum = << >>
    /\ i = 0
    /\ pc = "call"
    /\ raised = "none"
    /\ log = << >>
    /\ \E y \in SessionInputs :
          other = [pc |-> "call", z |-> y[1], q_tot |-> y[2], n |-> 0,
                   q_cum |-> << >>, i |-> 0, raised |-> "none"]
    /\ ion = Idle /\ dir = Idle /\ loss = Idle
    /\ dbg = Idle /\ summary = Idle /\ validator = Idle

(* The second invocation's setup that also clears the first one's array, as
   if q_cum were one buffer of the module *)
OtherEnter_ClearsShared ==
    /\ other.pc = "call"
    /\ other' = [other EXCEPT !.n = len(other.z),
                              !.q_cum = zeros(len(other.z)),
                              !.i = len(other.z) - 1,
                              !.pc = "loop"]
    /\ q_cum' = zeros(len(q_cum))
    /\ UNCHANGED <<z, q_tot, n, i, pc, raised, log>>
    /\ UNCHANGED scripts

OtherEnter ==
    /\ other.pc = "call"
    /\ other' = [other EXCEPT !.n = len(other.z),
                              !.q_cum = zeros(len(other.z)),
                              !.i = len(other.z) - 1,
                              !.pc = "loop"]
    /\ UNCHANGED <<z, q_tot, n, q_cum, i, pc, raised, log>>
    /\ UNCHANGED scripts

OtherIterate ==
    /\ other.pc = "loop"
    /\ other.i >= 1
    /\ LET r == body(other.q_cum, other.q_tot, other.z, other.i)
       IN  IF r.raised # "none"
           THEN other' = [other EXCEPT !.pc = "raise", !.raised = r.raised]
           ELSE other' = [other EXCEPT !.q_cum = r.cum, !.i = other.i - 1]
    /\ UNCHANGED <<z, q_tot, n, q_cum, i, pc, raised, log>>
    /\ UNCHANGED scripts

OtherReturn ==
    /\ other.pc = "loop"
    /\ other.i < 1
    /\ other' = [other EXCEPT !.pc = "return"]
    /\ UNCHANGED <<z, q_tot, n, q_cum, i, pc, raised, log>>
    /\ UNCHANGED scripts

NextTwo == Enter \/ Iterate \/ Return \/ OtherEnter \/ OtherIterate \/ OtherReturn

SpecTwo == InitTwo /\ [][NextTwo]_vars

(* C13: each of two interleaved invocations on disjoint inputs ends as it
   does when run alone, with the same returned array or the same exception. *)
C13_InterleavedCallsIndependent ==
    /\ pc \in {"return", "raise"} => outcome = integrate_from_top(z, q_tot)
    /\ other.pc = "return"
          => integrate_from_top(other.z, other.q_tot)
                 = [raised |-> "none", value |-> other.q_cum]
    /\ other.pc = "raise"
          => integrate_from_top(other.z, other.q_tot)
                 = [raised |-> other.raised, value |-> << >>]

(* The first invocation returns after the second has run between two of its
   iterations and before the second has ended *)
C13_Witness ==
    /\ Returned
    /\ <<z, q_tot>> = Scenario3
    /\ q_cum = FinArr(<<200, 180, 160, 100, 0>>)
    /\ other.pc = "loop"
    /\ <<other.z, other.q_tot>> = Scenario2
    /\ other.i = 2
    /\ other.q_cum[2] = Fin(-6250)

----------------------------------------------------------------------------
(* calc_ionization of AtmosphericBoundaryValidator
   (test_atmospheric_boundary_integration.py); the method of the same name of
   EnergyFluxConsistencyValidator (test_energy_flux_consistency.py) has the
   same statements.

   The arrays hold finite values, kept as integers.  Qe is held in units of
   the ionization energy 0.035 keV, so that Qe / 0.035 is the held number, and
   the inputs are such that f / H is exact.  A two-dimensional array is a
   function of <<row, column>>.  q_cum is held doubled, as above. *)

KM_TO_CM == 100000

Channels == {0, 1}

QeValues == {1, 2}

FValues == {0, 2}

(* Strictly monotonic altitude grids (km), top first or bottom first *)
IonGrids(m) == {g \in [0..(m - 1) -> Altitudes] : Increasing(g) \/ Decreasing(g)}

(* Scale heights: the same at every altitude, or changing with it *)
IonScaleHeights(m) ==
    {[k \in 0..(m - 1) |-> 1], [k \in 0..(m - 1) |-> 2], [k \in 0..(m - 1) |-> 1 + (k % 2)]}

IonInputs ==
    UNION {[Qe : [Channels -> QeValues],
            z : IonGrids(m),
            f : [(0..(m - 1)) \X Channels -> FValues],
            H : IonScaleHeights(m)] : m \in 1..MaxLen}

(* nz, nE = f.shape *)
shape_nz(f) == Cardinality({p[1] : p \in DOMAIN f})

shape_nE(f) == Cardinality({p[2] : p \in DOMAIN f})

(* Every channel scaled by the flux of channel 0 *)
ion_q_tot_FirstChannel(Qe, f, H) == [p \in DOMAIN f |-> (Qe[0] * f[p]) \div H[p[1]]]

(* q_tot = (Qe_grid / IONIZATION_ENERGY_KEV) * f / H_grid *)
ion_q_tot(Qe, f, H) == [p \in DOMAIN f |-> (Qe[p[2]] * f[p]) \div H[p[1]]]

(* z_cm = z * 1e5 *)
ion_z_cm(zz) == [k \in DOMAIN zz |-> zz[k] * KM_TO_CM]

ion_zeros(f) == [p \in DOMAIN f |-> 0]

(* dz = z_cm[i] - z_cm[i-1]
   q_cum[i, :] = q_cum[i-1, :] + 0.5 * (q_tot[i, :] + q_tot[i-1, :]) * dz *)
ion_row(cum, qq, z_cm, k) ==
    [p \in DOMAIN cum |->
        IF p[1] = k
        THEN cum[<<k - 1, p[2]>>]
                 + (qq[<<k, p[2]>>] + qq[<<k - 1, p[2]>>]) * (z_cm[k] - z_cm[k - 1])
        ELSE cum[p]]

(* for i in range(1, nz), from row k on *)
RECURSIVE ion_loop(_, _, _, _, _)
ion_loop(cum, qq, z_cm, k, nz) ==
    IF k >= nz THEN cum ELSE ion_loop(ion_row(cum, qq, z_cm, k), qq, z_cm, k + 1, nz)

(* The whole call: (q_cum, q_tot) *)
calc_ionization(Qe, zz, f, H) ==
    LET qq == ion_q_tot(Qe, f, H)
    IN  [q_cum |-> ion_loop(ion_zeros(f), qq, ion_z_cm(zz), 1, shape_nz(f)),
         q_tot |-> qq]

(* No call of integrate_from_top is running *)
NoCall ==
    /\ z = << >> /\ q_tot = << >> /\ n = 0 /\ q_cum = << >> /\ i = 0
    /\ pc = "idle" /\ raised = "none" /\ log = << >> /\ other = NoOther

call_vars == <<z, q_tot, n, q_cum, i, pc, raised, log, other>>

InitIon ==
    /\ NoCall
    /\ \E x \in IonInputs :
          ion = [pc |-> "call", Qe |-> x.Qe, z |-> x.z, f |-> x.f, H |-> x.H,
                 nz |-> 0, nE |-> 0, q_tot |-> << >>, z_cm |-> << >>,
                 q_cum |-> << >>, i |-> 0]
    /\ dir = Idle /\ loss = Idle
    /\ dbg = Idle /\ summary = Idle /\ validator = Idle

(* From the shape of f to the allocation of q_cum; the loop starts at i = 1 *)
IonEnter ==
    /\ ion.pc = "call"
    /\ ion' = [ion EXCEPT !.nz = shape_nz(ion.f),
                          !.nE = shape_nE(ion.f),
                          !.q_tot = ion_q_tot(ion.Qe, ion.f, ion.H),
                          !.z_cm = ion_z_cm(ion.z),
                          !.q_cum = ion_zeros(ion.f),
                          !.i = 1,
                          !.pc = "loop"]
    /\ UNCHANGED <<call_vars, dir, loss, harness>>

IonIterate ==
    /\ ion.pc = "loop"
    /\ ion.i < ion.nz
    /\ ion' = [ion EXCEPT !.q_cum = ion_row(ion.q_cum, ion.q_tot, ion.z_cm, ion.i),
                          !.i = ion.i + 1]
    /\ UNCHANGED <<call_vars, dir, loss, harness>>

(* return q_cum, q_tot *)
IonReturn ==
    /\ ion.pc = "loop"
    /\ ion.i >= ion.nz
    /\ ion' = [ion EXCEPT !.pc = "return"]
    /\ UNCHANGED <<call_vars, dir, loss, harness>>

NextIon == IonEnter \/ IonIterate \/ IonReturn

SpecIon == InitIon /\ [][NextIon]_vars

IonReturned == ion.pc = "return"

(* Column e of a two-dimensional array, as a one-column array *)
Column(a, e) == [p \in {q[1] : q \in DOMAIN a} \X {0} |-> a[<<p[1], e>>]]

(* C14: the columns of q_tot and q_cum that calc_ionization returns for a
   channel e are those of the call on that channel alone, with Qe[e] and
   f[:, e]; so they do not depend on Qe or f of another channel, nor on the
   position of the channel among the others. *)
C14_ChannelIndependence ==
    IonReturned
        => \A e \in Channels :
              LET alone == calc_ionization([c \in {0} |-> ion.Qe[e]], ion.z,
                                           Column(ion.f, e), ion.H)
              IN  /\ Column(ion.q_tot, e) = alone.q_tot
                  /\ Column(ion.q_cum, e) = alone.q_cum

C14_Witness ==
    /\ IonReturned
    /\ ion.nz >= 3
    /\ ion.Qe[0] # ion.Qe[1]
    /\ \E k \in 0..(ion.nz - 1) : ion.f[<<k, 0>>] # ion.f[<<k, 1>>]
    /\ ion.q_cum[<<ion.nz - 1, 0>>] # 0
    /\ ion.q_cum[<<ion.nz - 1, 1>>] # 0
    /\ ion.q_cum[<<ion.nz - 1, 0>>] # ion.q_cum[<<ion.nz - 1, 1>>]

(* C15: on a top-to-bottom grid (strictly decreasing altitudes) with q_tot >= 0
   everywhere, calc_ionization returns q_cum that is 0 at index 0 and is not
   negative at any altitude, the bottom index included. *)
C15_TopFirstNonNegative ==
    (/\ IonReturned
     /\ Decreasing(ion.z)
     /\ \A p \in DOMAIN ion.q_tot : ion.q_tot[p] >= 0)
        => /\ \A e \in Channels : ion.q_cum[<<0, e>>] = 0
           /\ \A p \in DOMAIN ion.q_cum : ion.q_cum[p] >= 0

(* C16: for strictly positive q_tot, calc_ionization returns q_cum that is
   non-negative, non-decreasing in index, 0 at the top boundary (the highest
   altitude) and maximal at the bottom boundary (the lowest altitude), on the
   bottom-to-top grid (strictly increasing altitudes) of the interface test. *)
C16_ZeroAtTopMaxAtBottom ==
    (/\ IonReturned
     /\ Increasing(ion.z)
     /\ \A p \in DOMAIN ion.q_tot : ion.q_tot[p] > 0)
        => \A e \in Channels :
              /\ \A k \in 0..(ion.nz - 1) : ion.q_cum[<<k, e>>] >= 0
              /\ \A k \in 1..(ion.nz - 1) : ion.q_cum[<<k, e>>] >= ion.q_cum[<<k - 1, e>>]
              /\ ion.q_cum[<<top_index(ion.z), e>>] = 0
              /\ \A k \in 0..(ion.nz - 1) :
                    ion.q_cum[<<(ion.nz - 1) - top_index(ion.z), e>>] >= ion.q_cum[<<k, e>>]

----------------------------------------------------------------------------
(* test_integration_direction of test_calc_ionization_validation.py: the
   sequence q_cum = -flip(cumtrapz(flip(z), flip(q_tot))) on an altitude array
   stored bottom first.  Finite values, kept as integers; the cumulative
   arrays are held doubled.  The rates of the script's own profile are in
   units of 0.1. *)

DirRates == {-1, 0, 1, 2}

DirInputs ==
    UNION {{g \in [0..(m - 1) -> Altitudes] : Increasing(g)} \X [0..(m - 1) -> DirRates]
               : m \in 0..MaxLen}
        \cup {<<Arr(<<100, 150, 200, 250, 300>>), Arr(<<50, 30, 15, 5, 1>>)>>}

InitDir ==
    /\ NoCall
    /\ ion = Idle /\ loss = Idle
    /\ dbg = Idle /\ summary = Idle /\ validator = Idle
    /\ \E x \in DirInputs :
          dir = [pc |-> "start", z |-> x[1], q_tot_test |-> x[2],
                 z_cm |-> << >>, z_flipped |-> << >>, q_tot_flipped |-> << >>,
                 q_cum_flipped |-> << >>, i |-> 0, q_cum_test |-> << >>]

(* One step of the manual cumulative trapezoid on the flipped arrays:
   dz = z_flipped[i] - z_flipped[i-1]
   q_cum_flipped[i] = q_cum_flipped[i-1]
                        + 0.5 * (q_tot_flipped[i] + q_tot_flipped[i-1]) * dz *)
dir_step(cum, qf, zf, k) ==
    [cum EXCEPT ![k] = cum[k - 1] + (qf[k] + qf[k - 1]) * (zf[k] - zf[k - 1])]

(* The array flipped back with the sign left as it is *)
dir_flip_only(cum) == flip(cum)

(* q_cum_test = -np.flip(q_cum_flipped) *)
dir_negflip(cum) == [k \in DOMAIN cum |-> -(flip(cum)[k])]

(* z_cm, the two flipped arrays and the zeroed q_cum_flipped *)
DirFlip ==
    /\ dir.pc = "start"
    /\ dir' = [dir EXCEPT !.z_cm = ion_z_cm(dir.z),
                          !.z_flipped = flip(ion_z_cm(dir.z)),
                          !.q_tot_flipped = flip(dir.q_tot_test),
                          !.q_cum_flipped = [k \in DOMAIN dir.q_tot_test |-> 0],
                          !.i = 1,
                          !.pc = "loop"]
    /\ UNCHANGED <<call_vars, ion, loss, harness>>

DirIterate ==
    /\ dir.pc = "loop"
    /\ dir.i < len(dir.z_flipped)
    /\ dir' = [dir EXCEPT !.q_cum_flipped =
                              dir_step(dir.q_cum_flipped, dir.q_tot_flipped,
                                       dir.z_flipped, dir.i),
                          !.i = dir.i + 1]
    /\ UNCHANGED <<call_vars, ion, loss, harness>>

DirFinish ==
    /\ dir.pc = "loop"
    /\ dir.i >= len(dir.z_flipped)
    /\ dir' = [dir EXCEPT !.q_cum_test = dir_negflip(dir.q_cum_flipped),
                          !.pc = "done"]
    /\ UNCHANGED <<call_vars, ion, loss, harness>>

NextDir == DirFlip \/ DirIterate \/ DirFinish

SpecDir == InitDir /\ [][NextDir]_vars

(* C17: for a strictly increasing altitude grid and rates that are all >= 0,
   q_cum = -flip(cumtrapz(flip(z), flip(q_tot))) is 0 at the last index (the
   top boundary), is >= 0 at every index, and at index 0 (the bottom boundary)
   is the total trapezoidal integral over the whole grid. *)
C17_NegatedFlipCumtrapz ==
    (/\ dir.pc = "done"
     /\ len(dir.z) >= 1
     /\ Increasing(dir.z)
     /\ \A k \in DOMAIN dir.q_tot_test : dir.q_tot_test[k] >= 0)
        => /\ dir.q_cum_test[len(dir.z) - 1] = 0
           /\ \A k \in DOMAIN dir.q_cum_test : dir.q_cum_test[k] >= 0
           /\ Fin(dir.q_cum_test[0])
                  = TrapezoidSum(dir.z_cm, [k \in DOMAIN dir.z |-> Fin(dir.q_tot_test[k])], 0)

C17_Witness ==
    /\ dir.pc = "done"
    /\ dir.z = Arr(<<100, 150, 200, 250, 300>>)
    /\ dir.q_tot_test = Arr(<<50, 30, 15, 5, 1>>)
    /\ dir.q_cum_test[4] = 0
    /\ dir.q_cum_test[0] = ((50 + 30) + (30 + 15) + (15 + 5) + (5 + 1)) * 50 * KM_TO_CM

----------------------------------------------------------------------------
(* Exact fractions for the floating point values of the loss loops: <<p, q>>
   is p / q with q > 0, in lowest terms.  Rounding is not modelled. *)

RECURSIVE GCD(_, _)
GCD(a, b) == IF b = 0 THEN a ELSE GCD(b, a % b)

Frac(p, q) ==
    LET g == GCD(Abs(p), q)
    IN  IF p = 0 THEN <<0, 1>> ELSE <<p \div g, q \div g>>

FMul(a, b) ==
    LET g1 == GCD(Abs(a[1]), b[2])
        g2 == GCD(Abs(b[1]), a[2])
    IN  IF a[1] = 0 \/ b[1] = 0
        THEN <<0, 1>>
        ELSE <<(a[1] \div g1) * (b[1] \div g2), (a[2] \div g2) * (b[2] \div g1)>>

FDiv(a, b) == FMul(a, <<b[2], b[1]>>)

FAdd(a, b) ==
    LET g == GCD(a[2], b[2])
    IN  Frac(a[1] * (b[2] \div g) + b[1] * (a[2] \div g), (a[2] \div g) * b[2])

FSub(a, b) == FAdd(a, <<-b[1], b[2]>>)

FLess(a, b) == FSub(a, b)[1] < 0

FLeq(a, b) == FSub(a, b)[1] <= 0

(* max(0, x) *)
FMax0(x) == IF x[1] < 0 THEN <<0, 1>> ELSE x

----------------------------------------------------------------------------
(* The precipitation loss loops: test_monotonic_decay and
   test_energy_conservation of test_precipitation_loss.py, and the loop of
   test_energy_conservation_error_budget of test_energy_flux_consistency.py.
   The scripts fix one set of parameters each; here the parameters range over
   small sets, with time steps large enough for the loops to end after a few
   steps. *)

BudgetPeriods == 3

(* while t < 10.0 (test_monotonic_decay), t_max = 1.0 (test_energy_conservation) *)
DecayHorizon == <<10, 1>>

EnergyHorizon == <<1, 1>>

(* loss = Qe * 0.01 *)
BudgetFraction == <<1, 100>>

LossFactors == {<<0, 1>>, <<1, 10>>, <<1, 2>>, <<1, 1>>, <<4, 1>>}

BouncePeriods == {<<1, 1>>, <<2, 1>>}

InitialFluxes == {<<1, 1>>, <<10000, 1>>, <<100000, 1>>}

DecaySteps == {<<2, 1>>, <<5, 1>>}

EnergySteps == {<<1, 4>>, <<1, 2>>, <<1, 1>>}

LossRun(kind, Qe0, lf, tb, dt) ==
    [pc |-> "loop", kind |-> kind, Qe_initial |-> Qe0, loss_factor |-> lf,
     t_b |-> tb, dt |-> dt, t |-> <<0, 1>>, Qe |-> Qe0, Qe_history |-> <<Qe0>>,
     energy_lost |-> <<0, 1>>, periods |-> 0]

LossInputs ==
    {LossRun("decay", Qe0, lf, tb, dt) :
        Qe0 \in InitialFluxes, lf \in LossFactors, tb \in BouncePeriods, dt \in DecaySteps}
    \cup {LossRun("energy", Qe0, lf, tb, dt) :
        Qe0 \in InitialFluxes, lf \in LossFactors, tb \in BouncePeriods, dt \in EnergySteps}
    \cup {LossRun("budget", Qe0, <<0, 1>>, <<1, 1>>, <<1, 1>>) : Qe0 \in InitialFluxes}

InitLoss ==
    /\ NoCall
    /\ ion = Idle /\ dir = Idle
    /\ dbg = Idle /\ summary = Idle /\ validator = Idle
    /\ loss \in LossInputs

(* dQe_dt = 2 * Qe * loss_factor / t_b *)
dQe_dt(Qe, lf, tb) == FDiv(FMul(FMul(<<2, 1>>, Qe), lf), tb)

(* The rate taken for the loss of the step, the time step left out *)
delta_E_NoStep(Qe, lf, tb, dt) == dQe_dt(Qe, lf, tb)

(* delta_E = dQe_dt * dt *)
delta_E(Qe, lf, tb, dt) == FMul(dQe_dt(Qe, lf, tb), dt)

(* The loss added to the flux *)
Qe_new_Added(Qe, lf, tb, dt) == FAdd(Qe, FMul(dQe_dt(Qe, lf, tb), dt))

(* Qe_new = Qe - dQe_dt * dt *)
Qe_new(Qe, lf, tb, dt) == FSub(Qe, FMul(dQe_dt(Qe, lf, tb), dt))

(* One pass of the while loop of test_monotonic_decay; a step that would raise
   the flux ends the test with 'Oscillations detected' *)
DecayStep ==
    /\ loss.pc = "loop" /\ loss.kind = "decay"
    /\ FLess(loss.t, DecayHorizon) /\ FLess(<<0, 1>>, loss.Qe)
    /\ LET new == Qe_new(loss.Qe, loss.loss_factor, loss.t_b, loss.dt)
       IN  IF FLess(loss.Qe, new)
           THEN loss' = [loss EXCEPT !.pc = "oscillation"]
           ELSE loss' = [loss EXCEPT !.Qe = FMax0(new),
                                     !.t = FAdd(loss.t, loss.dt),
                                     !.Qe_history = Append(loss.Qe_history, FMax0(new))]
    /\ UNCHANGED <<call_vars, ion, dir, harness>>

(* One pass of the while loop of test_energy_conservation *)
EnergyStep ==
    /\ loss.pc = "loop" /\ loss.kind = "energy"
    /\ FLess(loss.t, EnergyHorizon) /\ FLess(<<0, 1>>, loss.Qe)
    /\ LET dE == delta_E(loss.Qe, loss.loss_factor, loss.t_b, loss.dt)
       IN  loss' = [loss EXCEPT !.energy_lost = FAdd(loss.energy_lost, dE),
                                !.Qe = FMax0(FSub(loss.Qe, dE)),
                                !.t = FAdd(loss.t, loss.dt)]
    /\ UNCHANGED <<call_vars, ion, dir, harness>>

(* One pass of "for _ in range(10)" of the error budget test, the number of
   passes capped at BudgetPeriods *)
BudgetStep ==
    /\ loss.pc = "loop" /\ loss.kind = "budget"
    /\ loss.periods < BudgetPeriods
    /\ LET lost == FMul(loss.Qe, BudgetFraction)
       IN  loss' = [loss EXCEPT !.Qe = FMax0(FSub(loss.Qe, lost)),
                                !.energy_lost = FAdd(loss.energy_lost, lost),
                                !.periods = loss.periods + 1]
    /\ UNCHANGED <<call_vars, ion, dir, harness>>

(* The loop has ended *)
LossDone ==
    /\ loss.pc = "loop"
    /\ \/ /\ loss.kind = "decay"
          /\ ~(FLess(loss.t, DecayHorizon) /\ FLess(<<0, 1>>, loss.Qe))
       \/ /\ loss.kind = "energy"
          /\ ~(FLess(loss.t, EnergyHorizon) /\ FLess(<<0, 1>>, loss.Qe))
       \/ /\ loss.kind = "budget"
          /\ loss.periods >= BudgetPeriods
    /\ loss' = [loss EXCEPT !.pc = "done"]
    /\ UNCHANGED <<call_vars, ion, dir, harness>>

NextLoss == DecayStep \/ EnergyStep \/ BudgetStep \/ LossDone

SpecLoss == InitLoss /\ [][NextLoss]_vars

(* C18: for every Qe_initial > 0, loss_factor >= 0, t_b > 0 and dt > 0, the
   fluxes produced by Qe <- max(0, Qe - (2*Qe*loss_factor/t_b)*dt) never
   increase from one step to the next and are never negative, and the
   'oscillation detected' branch of test_monotonic_decay is never taken. *)
C18_MonotonicDecay ==
    loss.kind = "decay"
        => /\ loss.pc # "oscillation"
           /\ \A k \in 1..Len(loss.Qe_history) : loss.Qe_history[k][1] >= 0
           /\ \A k \in 2..Len(loss.Qe_history) :
                 FLeq(loss.Qe_history[k], loss.Qe_history[k - 1])

(* A run that decays over several steps without reaching 0 *)
C18_Witness ==
    /\ loss.kind = "decay" /\ loss.pc = "done"
    /\ Len(loss.Qe_history) >= 4
    /\ FLess(<<0, 1>>, loss.Qe)
    /\ FLess(loss.Qe, loss.Qe_initial)

(* The steps of the run cause no clamping: dt <= t_b / (2 * loss_factor),
   written without the division so that loss_factor = 0 is covered *)
NoClampingStep ==
    FLeq(FMul(FMul(<<2, 1>>, loss.loss_factor), loss.dt), loss.t_b)

(* C19: while no step is clamped (dt <= t_b / (2*loss_factor) in the Euler
   loop; always in the 1%-per-step loop), the remaining flux plus the
   accumulated sum of the per-step losses equals the initial flux after
   every step. *)
C19_EnergyAccounting ==
    (\/ loss.kind = "budget"
     \/ loss.kind = "energy" /\ NoClampingStep)
        => FAdd(loss.Qe, loss.energy_lost) = loss.Qe_initial

(* An Euler run of four unclamped steps that has lost part of its flux *)
C19_Witness ==
    /\ loss.kind = "energy" /\ NoClampingStep
    /\ loss.t = EnergyHorizon
    /\ loss.dt = <<1, 4>>
    /\ FLess(<<0, 1>>, loss.energy_lost)
    /\ FLess(<<0, 1>>, loss.Qe)

----------------------------------------------------------------------------
(* The loss factor lookup of test_loss_factor_boundary_cases and
   test_loss_factor_dimensionality (test_precipitation_loss.py), with that
   file's own calc_ionization: a reversed cumulative sum scaled by the mean
   grid step.  One energy channel, as in the scripts (Qe_test = [1.0]).  The
   grid is 0..GridTop km in 1 km steps (1000 km in the scripts); mirror
   altitudes are held in quarters of a km.  The dissipation fractions and
   scale heights of simple_energy_dissipation are positive; they range over
   small sets here, with f / H exact. *)

GridTop == 3

QuartersPerKm == 4

DissipationValues == {1, 2}

(* np.linspace(0, GridTop, GridTop + 1) *)
z_km_grid == [k \in 0..GridTop |-> k]

MirrorAlts == (-QuartersPerKm)..(QuartersPerKm * GridTop + QuartersPerKm)

MirrorInputs ==
    {[pc |-> "start", kind |-> "mirror", z_km |-> z_km_grid, Qe |-> 1,
      f_diss |-> f, H_cm |-> [k \in 0..GridTop |-> 1], mirror_alt |-> m,
      q_cum |-> <<>>, idx |-> -1, loss_factor |-> <<0, 1>>] :
        f \in [0..GridTop -> DissipationValues], m \in MirrorAlts}

InitMirror ==
    /\ NoCall
    /\ ion = Idle /\ dir = Idle
    /\ dbg = Idle /\ summary = Idle /\ validator = Idle
    /\ loss \in MirrorInputs

(* q_tot = (Qe_grid / 0.035) * f_diss / H_grid, Qe in units of 0.035 keV *)
loss_q_tot(Qe, f, H) == [k \in DOMAIN f |-> (Qe * f[k]) \div H[k]]

RECURSIVE SumFrom(_, _)
SumFrom(a, k) == IF k >= len(a) THEN 0 ELSE a[k] + SumFrom(a, k + 1)

(* np.cumsum(q_tot[::-1, :], axis=0)[::-1, :] *)
reversed_cumsum(a) == [k \in DOMAIN a |-> SumFrom(a, k)]

(* np.mean(np.diff(z_km)), exact on the uniform grids used *)
mean_diff(zz) == (zz[len(zz) - 1] - zz[0]) \div (len(zz) - 1)

(* calc_ionization of test_precipitation_loss.py: q_cum * dz * 1e5 *)
loss_calc_ionization(Qe, zz, f, H) ==
    LET qq == loss_q_tot(Qe, f, H)
        cs == reversed_cumsum(qq)
    IN  [q_cum |-> [k \in DOMAIN cs |-> cs[k] * mean_diff(zz) * KM_TO_CM],
         q_tot |-> qq]

(* np.argmin(np.abs(z_km - mirror_alt)): the first index of least distance *)
argmin_abs(zz, m) ==
    CHOOSE k \in DOMAIN zz :
        /\ \A j \in DOMAIN zz :
              Abs(QuartersPerKm * zz[k] - m) <= Abs(QuartersPerKm * zz[j] - m)
        /\ \A j \in DOMAIN zz :
              j < k => Abs(QuartersPerKm * zz[j] - m) > Abs(QuartersPerKm * zz[k] - m)

(* q_cum, _ = calc_ionization(Qe_test, z_km, f_diss.reshape(-1, 1), H_cm) *)
MirrorCall ==
    /\ loss.pc = "start" /\ loss.kind = "mirror"
    /\ loss' = [loss EXCEPT
                  !.q_cum = loss_calc_ionization(loss.Qe, loss.z_km,
                                                 loss.f_diss, loss.H_cm).q_cum,
                  !.pc = "branch"]
    /\ UNCHANGED <<call_vars, ion, dir, harness>>

(* mirror_alt > 1000: lf = 0.0; mirror_alt <= 0: lf = 1.0 *)
MirrorOutside ==
    /\ loss.pc = "branch" /\ loss.kind = "mirror"
    /\ \/ /\ loss.mirror_alt > QuartersPerKm * GridTop
          /\ loss' = [loss EXCEPT !.loss_factor = <<0, 1>>, !.pc = "done"]
       \/ /\ loss.mirror_alt <= 0
          /\ loss' = [loss EXCEPT !.loss_factor = <<1, 1>>, !.pc = "done"]
    /\ UNCHANGED <<call_vars, ion, dir, harness>>

(* idx = argmin(...); lf = q_cum[idx, 0] / q_cum[0, 0] *)
MirrorLookup ==
    /\ loss.pc = "branch" /\ loss.kind = "mirror"
    /\ loss.mirror_alt > 0 /\ loss.mirror_alt <= QuartersPerKm * GridTop
    /\ LET k == argmin_abs(loss.z_km, loss.mirror_alt)
       IN  loss' = [loss EXCEPT !.idx = k,
                                !.loss_factor = Frac(loss.q_cum[k], loss.q_cum[0]),
                                !.pc = "done"]
    /\ UNCHANGED <<call_vars, ion, dir, harness>>

NextMirror == MirrorCall \/ MirrorOutside \/ MirrorLookup

SpecMirror == InitMirror /\ [][NextMirror]_vars

(* C20: on the 1 km grid from 0 km with strictly positive q_tot, for every
   mirror altitude strictly between 0 and the top of the grid the loss factor
   q_cum[idx] / q_cum[0], idx the grid index nearest to the mirror altitude,
   is strictly greater than 0 and strictly less than 1. *)
C20_PartialLossBound ==
    (/\ loss.kind = "mirror" /\ loss.pc = "done"
     /\ loss.mirror_alt > 0 /\ loss.mirror_alt < QuartersPerKm * GridTop)
        => /\ FLess(<<0, 1>>, loss.loss_factor)
           /\ FLess(loss.loss_factor, <<1, 1>>)

----------------------------------------------------------------------------
(* debug_nonuniform.py: integrate_from_top_v1 (scipy's cumulative_trapezoid
   on the flipped arrays, flipped back and negated) and
   analytical_cumulative_manual, run on one pair of arrays and compared with
   integrate_from_top.  Values are doubled as for integrate_from_top.
   cumulative_trapezoid is the library's: out[0] = initial = 0 and
   out[k] = out[k-1] + (x[k] - x[k-1]) * (y[k] + y[k-1]) / 2.  Arrays have at
   least one element, the library rejecting an empty y. *)

Neg(a) == IF a.nan THEN NaN ELSE Fin(-(a.v))

RECURSIVE cumulative_trapezoid_at(_, _, _)
cumulative_trapezoid_at(y, x, k) ==
    IF k = 0
    THEN Fin(0)
    ELSE Add(cumulative_trapezoid_at(y, x, k - 1),
             Mul(Fin(x[k] - x[k - 1]), Add(y[k], y[k - 1])))

cumulative_trapezoid(y, x) == [k \in DOMAIN y |-> cumulative_trapezoid_at(y, x, k)]

(* The flipped cumulative integral returned without the negation *)
integrate_from_top_v1_Unsigned(zz, qq) ==
    flip(cumulative_trapezoid(flip(qq), flip(zz)))

integrate_from_top_v1(zz, qq) ==
    LET q_cum_flipped == cumulative_trapezoid(flip(qq), flip(zz))
    IN  [k \in DOMAIN q_cum_flipped |-> Neg(flip(q_cum_flipped)[k])]

(* for i in range(n-2, -1, -1): the pass for index k and the passes below it *)
RECURSIVE manual_loop(_, _, _, _)
manual_loop(cum, qq, zz, k) ==
    IF k < 0
    THEN cum
    ELSE LET dz == zz[k + 1] - zz[k]
         IN  manual_loop(IF dz # 0
                         THEN [cum EXCEPT ![k] = Add(cum[k + 1],
                                                     Mul(Add(qq[k], qq[k + 1]), Fin(dz)))]
                         ELSE cum,
                         qq, zz, k - 1)

analytical_cumulative_manual(zz, qq) == manual_loop(zeros(len(zz)), qq, zz, len(zz) - 2)

DbgInputs ==
    UNION {Grids(m) \X Profiles(m) : m \in 1..MaxLen}

InitDbg ==
    /\ NoCall
    /\ ion = Idle /\ dir = Idle /\ loss = Idle
    /\ summary = Idle /\ validator = Idle
    /\ \E x \in DbgInputs :
          dbg = [pc |-> "v1", z |-> x[1], q_tot |-> x[2], q_cum_numerical |-> << >>,
                 q_cum_manual |-> << >>, q_cum_top |-> << >>]

(* q_cum_numerical = integrate_from_top_v1(z, q_tot) *)
DbgNumerical ==
    /\ dbg.pc = "v1"
    /\ dbg' = [dbg EXCEPT !.q_cum_numerical = integrate_from_top_v1(dbg.z, dbg.q_tot),
                          !.pc = "manual"]
    /\ UNCHANGED <<call_vars, ion, dir, loss, summary, validator>>

(* q_cum_manual = analytical_cumulative_manual(z, q_tot) *)
DbgManual ==
    /\ dbg.pc = "manual"
    /\ dbg' = [dbg EXCEPT !.q_cum_manual = analytical_cumulative_manual(dbg.z, dbg.q_tot),
                          !.pc = "top"]
    /\ UNCHANGED <<call_vars, ion, dir, loss, summary, validator>>

(* The same arrays handed to integrate_from_top of test_numerical_methods.py *)
DbgTop ==
    /\ dbg.pc = "top"
    /\ dbg' = [dbg EXCEPT !.q_cum_top = integrate_from_top(dbg.z, dbg.q_tot).value,
                          !.pc = "done"]
    /\ UNCHANGED <<call_vars, ion, dir, loss, summary, validator>>

NextDbg == DbgNumerical \/ DbgManual \/ DbgTop

SpecDbg == InitDbg /\ [][NextDbg]_vars

(* C22: for every strictly monotonic altitude grid (increasing or decreasing)
   and every rate profile, integrate_from_top_v1, analytical_cumulative_manual
   and integrate_from_top return the same array. *)
C22_ThreeImplementationsAgree ==
    (dbg.pc = "done" /\ StrictlyMonotonic(dbg.z))
        => /\ dbg.q_cum_numerical = dbg.q_cum_manual
           /\ dbg.q_cum_manual = dbg.q_cum_top

(* A decreasing grid with a NaN in the middle: all three hold NaN below it *)
C22_Witness ==
    /\ dbg.pc = "done"
    /\ dbg.z = Arr(<<4, 3, 0>>)
    /\ dbg.q_tot = Arr(<<Fin(1), NaN, Fin(-1)>>)
    /\ dbg.q_cum_numerical = Arr(<<NaN, NaN, Fin(0)>>)
    /\ dbg.q_cum_top = Arr(<<NaN, NaN, Fin(0)>>)

----------------------------------------------------------------------------
(* matlab_cumtrapz_simulation of debug_integration.py and
   test_flip_cumtrapz_flip of verify_integration_sign.py: the same sequence
   flip / manual cumtrapz / flip, with and without the final negation, on an
   altitude array in cm.  Integers; the cumulative arrays are held doubled;
   the rates of the scripts' own profile are in units of 0.1. *)

SignRates == {0, 1, 2}

SignInputs ==
    UNION {IonGrids(m) \X [0..(m - 1) -> SignRates] : m \in 1..MaxLen}
        \cup {<<Arr(<<300, 250, 200, 150, 100>>), Arr(<<1, 5, 15, 30, 50>>)>>}

InitSign ==
    /\ NoCall
    /\ ion = Idle /\ dir = Idle /\ loss = Idle
    /\ summary = Idle /\ validator = Idle
    /\ \E x \in SignInputs :
          dbg = [pc |-> "start", z |-> x[1], q_tot |-> x[2], z_cm |-> ion_z_cm(x[1]),
                 z_flipped |-> << >>, q_tot_flipped |-> << >>,
                 cumtrapz_result |-> << >>, i |-> 0, result_flipped |-> << >>,
                 q_cum |-> << >>, q_cum_no_neg |-> << >>, total_ionization |-> 0]

(* cumtrapz_result[i] = cumtrapz_result[i-1]
                          + 0.5 * (q_tot_flipped[i] + q_tot_flipped[i-1]) * dz *)
cumtrapz_step(cum, qf, zf, k) ==
    [cum EXCEPT ![k] = cum[k - 1] + (qf[k] + qf[k - 1]) * (zf[k] - zf[k - 1])]

(* np.zeros_like(q_tot_flipped) after the two flips *)
SignFlip ==
    /\ dbg.pc = "start"
    /\ dbg' = [dbg EXCEPT !.z_flipped = flip(dbg.z_cm),
                          !.q_tot_flipped = flip(dbg.q_tot),
                          !.cumtrapz_result = [k \in DOMAIN dbg.q_tot |-> 0],
                          !.i = 1,
                          !.pc = "loop"]
    /\ UNCHANGED <<call_vars, ion, dir, loss, summary, validator>>

SignIterate ==
    /\ dbg.pc = "loop"
    /\ dbg.i < len(dbg.z_flipped)
    /\ dbg' = [dbg EXCEPT !.cumtrapz_result =
                              cumtrapz_step(dbg.cumtrapz_result, dbg.q_tot_flipped,
                                            dbg.z_flipped, dbg.i),
                          !.i = dbg.i + 1]
    /\ UNCHANGED <<call_vars, ion, dir, loss, summary, validator>>

(* result_flipped = np.flip(cumtrapz_result); q_cum = -result_flipped;
   q_cum_no_neg = result_flipped *)
SignBoth ==
    /\ dbg.pc = "loop"
    /\ dbg.i >= len(dbg.z_flipped)
    /\ dbg' = [dbg EXCEPT !.result_flipped = flip(dbg.cumtrapz_result),
                          !.q_cum = [k \in DOMAIN dbg.cumtrapz_result |->
                                        -(flip(dbg.cumtrapz_result)[k])],
                          !.q_cum_no_neg = flip(dbg.cumtrapz_result),
                          !.pc = "total"]
    /\ UNCHANGED <<call_vars, ion, dir, loss, summary, validator>>

(* total_ionization = np.sum(q_tot * np.abs(np.diff(z_cm))): arrays of n and
   n - 1 elements, which numpy multiplies only when one of them has one
   element (n = 2) or none is left to multiply (n = 1); otherwise the
   product raises ValueError and the function ends there *)
SignTotal ==
    /\ dbg.pc = "total"
    /\ dbg' = IF len(dbg.z) = 1
              THEN [dbg EXCEPT !.total_ionization = 0, !.pc = "done"]
              ELSE IF len(dbg.z) = 2
                   THEN [dbg EXCEPT !.total_ionization =
                                        (dbg.q_tot[0] + dbg.q_tot[1])
                                            * Abs(dbg.z_cm[1] - dbg.z_cm[0]),
                                    !.pc = "done"]
                   ELSE [dbg EXCEPT !.pc = "raise"]
    /\ UNCHANGED <<call_vars, ion, dir, loss, summary, validator>>

NextSign == SignFlip \/ SignIterate \/ SignBoth \/ SignTotal

SpecSign == InitSign /\ [][NextSign]_vars

(* C23: for an altitude array stored top first (strictly decreasing) and
   rates that are all >= 0, the un-negated flip(cumtrapz(flip(z), flip(q_tot)))
   is 0 at index 0 (the top boundary) and equals the total trapezoidal
   integral over the whole grid at the last index (the bottom boundary). *)
C23_UnnegatedZeroAtTop ==
    (/\ dbg.pc \in {"total", "done", "raise"}
     /\ Decreasing(dbg.z)
     /\ \A k \in DOMAIN dbg.q_tot : dbg.q_tot[k] >= 0)
        => /\ dbg.q_cum_no_neg[0] = 0
           /\ dbg.q_cum_no_neg[len(dbg.z) - 1]
                  = dbg.cumtrapz_result[len(dbg.z) - 1]

----------------------------------------------------------------------------
(* C24: on a uniform strictly increasing grid, q_cum of calc_ionization of
   test_precipitation_loss.py equals the top-down cumulative trapezoidal
   integral of q_tot, that is the output of integrate_from_top with z in cm
   (held doubled), and in particular is 0 at the top (last) index. *)
C24_CumsumIsTrapezoid ==
    (loss.kind = "mirror" /\ loss.pc \in {"branch", "done"})
        => LET qq == loss_q_tot(loss.Qe, loss.f_diss, loss.H_cm)
               trapezoid == integrate_from_top(ion_z_cm(loss.z_km),
                                               [k \in DOMAIN qq |-> Fin(qq[k])]).value
           IN  /\ \A k \in DOMAIN loss.q_cum : Fin(2 * loss.q_cum[k]) = trapezoid[k]
               /\ loss.q_cum[len(loss.z_km) - 1] = 0

----------------------------------------------------------------------------
(* test_stability_criterion of test_precipitation_loss.py: the loss loop run
   for int(1.0 / dt) steps, first with dt = 0.5 * max_stable_dt and then with
   dt = 2 * max_stable_dt, where max_stable_dt = t_b / (2 * loss_factor).
   Each history entry holds the value assigned by
   "Qe = Qe - dQe_dt * dt" (raw) and the value left by the clamp (Qe). *)

StabilityFactors == {<<1, 10>>, <<1, 2>>, <<1, 1>>, <<4, 1>>}

(* max_stable_dt = t_b / (2 * loss_factor) *)
max_stable_dt(tb, lf) == FDiv(tb, FMul(<<2, 1>>, lf))

(* int(1.0 / dt) for dt > 0 *)
n_steps(dt) == dt[2] \div dt[1]

StabilityInputs ==
    {[pc |-> "stable", kind |-> "stability", t_b |-> tb, loss_factor |-> lf,
      dt_stable |-> FMul(<<1, 2>>, max_stable_dt(tb, lf)),
      dt_unstable |-> FMul(<<2, 1>>, max_stable_dt(tb, lf)),
      Qe_initial |-> Qe0, Qe_stable |-> Qe0, Qe_unstable |-> Qe0, i |-> 0,
      stable_history |-> << >>, unstable_history |-> << >>] :
        tb \in BouncePeriods, lf \in StabilityFactors, Qe0 \in InitialFluxes}

InitStability ==
    /\ NoCall
    /\ ion = Idle /\ dir = Idle
    /\ dbg = Idle /\ summary = Idle /\ validator = Idle
    /\ loss \in StabilityInputs

(* if Qe < 0: Qe = 0 *)
clamp(x) == IF x[1] < 0 THEN <<0, 1>> ELSE x

(* One pass of the first loop *)
StableStep ==
    /\ loss.pc = "stable" /\ loss.kind = "stability"
    /\ loss.i < n_steps(loss.dt_stable)
    /\ LET raw == Qe_new(loss.Qe_stable, loss.loss_factor, loss.t_b, loss.dt_stable)
       IN  loss' = [loss EXCEPT !.Qe_stable = clamp(raw),
                                !.i = loss.i + 1,
                                !.stable_history =
                                    Append(loss.stable_history,
                                           [raw |-> raw, Qe |-> clamp(raw)])]
    /\ UNCHANGED <<call_vars, ion, dir, harness>>

StableEnd ==
    /\ loss.pc = "stable" /\ loss.kind = "stability"
    /\ loss.i >= n_steps(loss.dt_stable)
    /\ loss' = [loss EXCEPT !.pc = "unstable", !.i = 0]
    /\ UNCHANGED <<call_vars, ion, dir, harness>>

(* One pass of the second loop *)
UnstableStep ==
    /\ loss.pc = "unstable" /\ loss.kind = "stability"
    /\ loss.i < n_steps(loss.dt_unstable)
    /\ LET raw == Qe_new(loss.Qe_unstable, loss.loss_factor, loss.t_b, loss.dt_unstable)
       IN  loss' = [loss EXCEPT !.Qe_unstable = clamp(raw),
                                !.i = loss.i + 1,
                                !.unstable_history =
                                    Append(loss.unstable_history,
                                           [raw |-> raw, Qe |-> clamp(raw)])]
    /\ UNCHANGED <<call_vars, ion, dir, harness>>

UnstableEnd ==
    /\ loss.pc = "unstable" /\ loss.kind = "stability"
    /\ loss.i >= n_steps(loss.dt_unstable)
    /\ loss' = [loss EXCEPT !.pc = "done"]
    /\ UNCHANGED <<call_vars, ion, dir, harness>>

NextStability == StableStep \/ StableEnd \/ UnstableStep \/ UnstableEnd

SpecStability == InitStability /\ [][NextStability]_vars

(* At some step Qe was negative or larger than at the previous step *)
ShowsInstability(history, Qe0) ==
    \E k \in 1..Len(history) :
        \/ history[k].raw[1] < 0
        \/ FLess(IF k = 1 THEN Qe0 ELSE history[k - 1].Qe, history[k].Qe)

(* C25: with dt above t_b / (2 * loss_factor) the clamped iteration is
   unstable, at some step Qe being negative or larger than at the previous
   step; with dt below the criterion neither happens. *)
C25_StabilityCriterion ==
    (loss.kind = "stability" /\ loss.pc = "done")
        => /\ ShowsInstability(loss.unstable_history, loss.Qe_initial)
           /\ ~ShowsInstability(loss.stable_history, loss.Qe_initial)

----------------------------------------------------------------------------
(* result[k-1] = result[k] + 0.5 * (rate[k-1] + rate[k]) * (z[k] - z[k-1]),
   in the doubled values of the model *)
AdjacentPairLaw(result, zz, qq, k) ==
    result[k - 1] = Add(result[k], Mul(Add(qq[k - 1], qq[k]), Fin(zz[k] - zz[k - 1])))

(* C26: where two consecutive altitudes are equal, integrate_from_top and
   analytical_cumulative_manual return result[i-1] = result[i]; and for every
   adjacent pair of every input with finite rates
   result[i-1] - result[i] = 0.5*(rate[i-1]+rate[i])*(altitude[i]-altitude[i-1]). *)
C26_ZeroWidthCarriesOver ==
    dbg.pc = "done"
        => \A k \in 1..(len(dbg.z) - 1) :
              /\ dbg.z[k] = dbg.z[k - 1]
                    => /\ dbg.q_cum_top[k - 1] = dbg.q_cum_top[k]
                       /\ dbg.q_cum_manual[k - 1] = dbg.q_cum_manual[k]
              /\ AllFinite(dbg.q_tot)
                    => /\ AdjacentPairLaw(dbg.q_cum_top, dbg.z, dbg.q_tot, k)
                       /\ AdjacentPairLaw(dbg.q_cum_manual, dbg.z, dbg.q_tot, k)

----------------------------------------------------------------------------
(* C27: on a strictly increasing grid with n >= 2, if rate[n-1] (the top
   element) is NaN, integrate_from_top returns exactly 0 at index n-1 and NaN
   at every other index. *)
C27_NaNAtAnchor ==
    (/\ Returned /\ SameLength
     /\ len(z) >= 2 /\ Increasing(z)
     /\ isnan(q_tot[len(z) - 1]))
        => /\ q_cum[len(z) - 1] = Fin(0)
           /\ \A k \in 0..(len(z) - 2) : isnan(q_cum[k])

C27_Witness ==
    /\ Returned
    /\ z = Arr(<<0, 1, 3>>)
    /\ q_tot = Arr(<<Fin(1), Fin(0), NaN>>)
    /\ q_cum = Arr(<<NaN, NaN, Fin(0)>>)

----------------------------------------------------------------------------
(* VALIDATION_SUMMARY.md and its two writers: update_summary of
   test_atmospheric_boundary_integration.py (Task 3.6.1) and update_summary
   of test_energy_flux_consistency.py (Task 3.6.0), each run any number of
   times, in any order, on the same file.  The text of the file is held as
   the sequence of its sections, a section as the heading and the figures
   written into it; timestamps are left out.  results is the dictionary a
   validator hands over, reduced to its counts.  The fields last and ran
   record the latest call and the writers that have run. *)

MaxRuns == 3

TotalTests == 3

SummaryResults ==
    {[passed_tests |-> p, total_tests |-> TotalTests, all_passed |-> (p = TotalTests)] :
        p \in 0..TotalTests}

(* new_entry of the Task 3.6.1 writer *)
new_entry(results) ==
    [heading |-> "## Task 3.6.1:",
     status |-> IF results.all_passed THEN "PASSED" ELSE "FAILED",
     passed |-> results.passed_tests, total |-> results.total_tests]

(* summary_content of the Task 3.6.0 writer *)
summary_content(results) ==
    <<[heading |-> "# IMPACT Cross-Component Validation Summary",
       status |-> IF results.all_passed THEN "ALL VALIDATED" ELSE "ISSUES FOUND",
       passed |-> results.passed_tests, total |-> results.total_tests]>>

(* "## Task 3.6.1:" in existing_content *)
contains(content, heading) == \E k \in 1..Len(content) : content[k].heading = heading

InitSummary ==
    /\ NoCall
    /\ ion = Idle /\ dir = Idle /\ loss = Idle
    /\ dbg = Idle /\ validator = Idle
    /\ summary = [exists |-> FALSE, content |-> << >>, runs |-> 0,
                  last |-> [writer |-> "none"], ran |-> {}]

(* update_summary(results) of test_atmospheric_boundary_integration.py *)
BoundaryUpdateSummary ==
    /\ summary.runs < MaxRuns
    /\ \E results \in SummaryResults :
          LET existing_content == IF summary.exists THEN summary.content ELSE << >>
          IN  summary' = [summary EXCEPT
                  !.exists = IF contains(existing_content, "## Task 3.6.1:")
                             THEN summary.exists
                             ELSE TRUE,
                  !.content = IF contains(existing_content, "## Task 3.6.1:")
                              THEN summary.content
                              ELSE Append(existing_content, new_entry(results)),
                  !.runs = summary.runs + 1,
                  !.last = [writer |-> "3.6.1", results |-> results],
                  !.ran = summary.ran \cup {"3.6.1"}]
    /\ UNCHANGED <<call_vars, ion, dir, loss, dbg, validator>>

(* update_summary(results) of test_energy_flux_consistency.py, with the
   default summary_file *)
FluxUpdateSummary ==
    /\ summary.runs < MaxRuns
    /\ \E results \in SummaryResults :
          summary' = [exists |-> TRUE,
                      content |-> summary_content(results),
                      runs |-> summary.runs + 1,
                      last |-> [writer |-> "3.6.0", results |-> results],
                      ran |-> summary.ran \cup {"3.6.0"}]
    /\ UNCHANGED <<call_vars, ion, dir, loss, dbg, validator>>

NextSummary == BoundaryUpdateSummary \/ FluxUpdateSummary

SpecSummary == InitSummary /\ [][NextSummary]_vars

HasTask361 == summary.exists /\ contains(summary.content, "## Task 3.6.1:")

HasTask360 ==
    summary.exists /\ contains(summary.content, "# IMPACT Cross-Component Validation Summary")

EntryKept == HasTask361 => HasTask361'

(* C28: once the Task 3.6.1 entry has been written it is still present after
   any later run of the Task 3.6.0 writer on the same file, and after both
   writers have run, in either order, the file holds both tasks' sections. *)
C28_SummaryEntriesKept ==
    /\ [][EntryKept]_vars
    /\ [](summary.ran = {"3.6.0", "3.6.1"} => (HasTask360 /\ HasTask361))

(* C29: after every call of the Task 3.6.1 writer, a second run on a file
   that already holds a Task 3.6.1 entry included, the Task 3.6.1 entry of
   the file reports the status and pass counts of the results of that call. *)
C29_EntryReportsLatestResults ==
    summary.last.writer = "3.6.1"
        => \E k \in 1..Len(summary.content) :
              summary.content[k] = new_entry(summary.last.results)

----------------------------------------------------------------------------
(* reset_results and run_test of the three validators
   (EnergyFluxConsistencyValidator, AtmosphericBoundaryValidator,
   PrecipitationLossValidator): the same statements in all three.  What a
   test function does is one of: return a dictionary with 'passed' true,
   with 'passed' false or without 'passed'; return a value that is no
   dictionary (None); raise an Exception; raise a BaseException that is no
   Exception (KeyboardInterrupt, SystemExit).  The field history records,
   for each call since the last reset, what the test function did, what
   run_test returned or that it raised, and the counters it left. *)

MaxTests == 3

TestNames == {"Test A", "Test B"}

Dict(has, passed) == [kind |-> "dict", has_passed |-> has, passed |-> passed]

Other(kind) == [kind |-> kind, has_passed |-> FALSE, passed |-> FALSE]

TestOutcomes ==
    {Dict(TRUE, TRUE), Dict(TRUE, FALSE), Dict(FALSE, FALSE),
     Other("None"), Other("Exception"), Other("KeyboardInterrupt")}

NoResult == Other("unset")

(* result.get('passed', False) *)
get_passed(result) == IF result.has_passed THEN result.passed ELSE FALSE

(* __init__ and reset_results *)
reset_results ==
    [pc |-> "ready", test_results |-> [name \in TestNames |-> NoResult],
     passed_tests |-> 0, failed_tests |-> 0, history |-> << >>]

Ended(v, out, returned) ==
    [v EXCEPT !.history = Append(v.history,
                                 [outcome |-> out, returned |-> returned,
                                  passed_tests |-> v.passed_tests,
                                  failed_tests |-> v.failed_tests])]

(* The except branch leaving failed_tests as it is *)
except_branch_Uncounted(v, name) ==
    [v EXCEPT !.test_results[name] = Dict(TRUE, FALSE)]

(* except Exception as e: one failure, the error recorded as the result *)
except_branch(v, name) ==
    [v EXCEPT !.failed_tests = v.failed_tests + 1,
              !.test_results[name] = Dict(TRUE, FALSE)]

(* run_test(test_name, test_func), test_func doing out *)
run_test(v, name, out) ==
    IF out.kind = "KeyboardInterrupt"
    THEN Ended([v EXCEPT !.pc = "propagated"], out, "raised")
    ELSE IF out.kind = "Exception"
    THEN Ended(except_branch(v, name), out, "False")
    ELSE IF out.kind = "None"
    THEN Ended(except_branch([v EXCEPT !.test_results[name] = out], name), out, "False")
    ELSE IF get_passed(out)
    THEN Ended([v EXCEPT !.test_results[name] = out,
                         !.passed_tests = v.passed_tests + 1], out, "True")
    ELSE Ended([v EXCEPT !.test_results[name] = out,
                         !.failed_tests = v.failed_tests + 1], out, "False")

InitValidator ==
    /\ NoCall
    /\ ion = Idle /\ dir = Idle /\ loss = Idle
    /\ dbg = Idle /\ summary = Idle
    /\ validator = reset_results

ResetResults ==
    /\ validator.pc = "ready"
    /\ validator' = reset_results
    /\ UNCHANGED <<call_vars, ion, dir, loss, dbg, summary>>

RunTest ==
    /\ validator.pc = "ready"
    /\ Len(validator.history) < MaxTests
    /\ \E name \in TestNames, out \in TestOutcomes :
          validator' = run_test(validator, name, out)
    /\ UNCHANGED <<call_vars, ion, dir, loss, dbg, summary>>

NextValidator == ResetResults \/ RunTest

SpecValidator == InitValidator /\ [][NextValidator]_vars

(* The counters before call k of the history *)
PassedBefore(k) == IF k = 1 THEN 0 ELSE validator.history[k - 1].passed_tests

FailedBefore(k) == IF k = 1 THEN 0 ELSE validator.history[k - 1].failed_tests

IncrementedPassed(k) ==
    /\ validator.history[k].passed_tests = PassedBefore(k) + 1
    /\ validator.history[k].failed_tests = FailedBefore(k)

IncrementedFailed(k) ==
    /\ validator.history[k].passed_tests = PassedBefore(k)
    /\ validator.history[k].failed_tests = FailedBefore(k) + 1

(* C30: after reset_results and any sequence of run_test calls, every call
   has incremented exactly one of passed_tests and failed_tests, so that
   their sum is the number of calls, has returned True exactly when it
   incremented passed_tests, and has never propagated an exception; a test
   function that raises or returns a non-dictionary is one failure. *)
C30_ValidatorBookkeeping ==
    /\ validator.passed_tests + validator.failed_tests = Len(validator.history)
    /\ \A k \in 1..Len(validator.history) :
          /\ IncrementedPassed(k) \/ IncrementedFailed(k)
          /\ validator.history[k].returned # "raised"
          /\ validator.history[k].returned = "True" <=> IncrementedPassed(k)
          /\ validator.history[k].outcome.kind \in {"None", "Exception", "KeyboardInterrupt"}
                => IncrementedFailed(k)

(* C30 amended: the same for every call whose test function returns or
   raises an Exception; a test function that raises a BaseException that is
   no Exception (KeyboardInterrupt, SystemExit) makes run_test raise it, with
   neither counter changed. *)
C30_Amended ==
    \A k \in 1..Len(validator.history) :
        IF validator.history[k].outcome.kind = "KeyboardInterrupt"
        THEN /\ validator.history[k].returned = "raised"
             /\ validator.history[k].passed_tests = PassedBefore(k)
             /\ validator.history[k].failed_tests = FailedBefore(k)
        ELSE /\ IncrementedPassed(k) \/ IncrementedFailed(k)
             /\ validator.history[k].returned # "raised"
             /\ validator.history[k].returned = "True" <=> IncrementedPassed(k)
             /\ validator.history[k].outcome.kind \in {"None", "Exception"}
                   => IncrementedFailed(k)

(* A passing test, a test that returns None and a test that raises *)
C30_Witness ==
    /\ Len(validator.history) = 3
    /\ validator.history[1].outcome = Dict(TRUE, TRUE)
    /\ validator.history[2].outcome = Other("None")
    /\ validator.history[3].outcome = Other("Exception")
    /\ validator.passed_tests = 1 /\ validator.failed_tests = 2
    /\ validator.history[1].returned = "True"
    /\ validator.history[3].returned = "False"

====
